---- MODULE Spec2Model ----
(***************************************************************************)
(* escallmatch: a CallExpression matcher made from a function/method       *)
(* signature.  The model follows src/index.js (the current implementation) *)
(* and, for matchArgument, also src/unnamed/part_000 (the earlier          *)
(* implementation kept in the repository).                                 *)
(*                                                                         *)
(* ESTree nodes are records.  `loc` is the source-position metadata that   *)
(* espurify strips.  null and undefined are the records Null, Undefined.   *)
(* Candidate node objects live in `heap`; a reference to one is its index, *)
(* so that JavaScript's === on objects is equality of indices.             *)
(***************************************************************************)
EXTENDS Integers, Sequences, FiniteSets, TLC

(* ------------------------------ bounds -------------------------------- *)
MaxSigArgs == 2        \* longest argument list of a signature
MaxCandArgs == 3       \* longest argument list of a candidate call
MaxQueries == 2        \* queries made on one Matcher in a behaviour

(* --------------------------- JavaScript values ------------------------- *)
Null == [type |-> "null"]
Undefined == [type |-> "undefined"]
Thrown(e) == [thrown |-> e, arg |-> ""]
ThrownWith(e, arg) == [thrown |-> e, arg |-> arg]
Returned(v) == [returned |-> v]
IsThrown(r) == "thrown" \in DOMAIN r

notCallExprMessage == "Argument should be in the form of CallExpression"
duplicatedArgMessage == "Duplicate argument name: "
\* (the source quotes name and [name] with backticks)
invalidFormMessage == "Argument should be in the form of name or [name]"
TypeError == "TypeError"

(* ------------------------------ ESTree -------------------------------- *)
Identifier(name, loc) == [type |-> "Identifier", name |-> name, loc |-> loc]
MemberExpression(object, property, loc) ==
    [type |-> "MemberExpression", computed |-> FALSE, object |-> object,
     property |-> property, loc |-> loc]
CallExpression(callee, arguments, loc) ==
    [type |-> "CallExpression", callee |-> callee, arguments |-> arguments,
     loc |-> loc]
ArrayExpression(elements, loc) ==
    [type |-> "ArrayExpression", elements |-> elements, loc |-> loc]
Literal(value, loc) == [type |-> "Literal", value |-> value, loc |-> loc]
ExpressionStatement(expression, loc) ==
    [type |-> "ExpressionStatement", expression |-> expression, loc |-> loc]
EmptyStatement(loc) == [type |-> "EmptyStatement", loc |-> loc]
Program(body) == [type |-> "Program", body |-> body, loc |-> 0]

(* estraverse.VisitorKeys, restricted to the node types of the model *)
VisitorKeys ==
    [Identifier |-> <<>>,
     Literal |-> <<>>,
     MemberExpression |-> <<"object", "property">>,
     CallExpression |-> <<"callee", "arguments">>,
     ArrayExpression |-> <<"elements">>]

(* a caller-supplied options.visitorKeys: property names are not visited *)
CustomVisitorKeys ==
    [Identifier |-> <<>>,
     Literal |-> <<>>,
     MemberExpression |-> <<"object">>,
     CallExpression |-> <<"callee", "arguments">>,
     ArrayExpression |-> <<"elements">>]

ArrayKeys == {"arguments", "elements"}

RECURSIVE Flatten(_)
Flatten(seqs) ==
    IF seqs = <<>> THEN <<>> ELSE Head(seqs) \o Flatten(Tail(seqs))

(* estraverse.traverse in `enter` order: the length of this.path() at each *)
(* visited node.  A child held directly adds its key to the path, a child  *)
(* held in an array adds the key and the index; null children are skipped. *)
RECURSIVE traverse(_, _, _)
traverse(node, keys, pathDepth) ==
    LET ks == keys[node.type]
        visitKey(k) ==
            IF k \in ArrayKeys
            THEN Flatten([i \in 1..Len(node[k]) |->
                     IF node[k][i] = Null THEN <<>>
                     ELSE traverse(node[k][i], keys, pathDepth + 2)])
            ELSE IF node[k] = Null THEN <<>>
                 ELSE traverse(node[k], keys, pathDepth + 1)
    IN <<pathDepth>> \o Flatten([j \in 1..Len(ks) |-> visitKey(ks[j])])

RECURSIVE astDepthFrom(_, _, _)
astDepthFrom(visits, i, maxDepth) ==
    IF i > Len(visits) THEN maxDepth
    ELSE astDepthFrom(visits, i + 1,
                      IF maxDepth < visits[i] THEN visits[i] ELSE maxDepth)

astDepth(ast, visitorKeys) == astDepthFrom(traverse(ast, visitorKeys, 0), 1, 0)

(* the enter callback of isSameAstDepth, with this.break() *)
RECURSIVE isSameAstDepthFrom(_, _, _, _)
isSameAstDepthFrom(visits, i, depth, currentDepth) ==
    IF i > Len(visits) THEN currentDepth
    ELSE LET d == IF currentDepth < visits[i] THEN visits[i] ELSE currentDepth
         IN IF depth < d THEN d
            ELSE isSameAstDepthFrom(visits, i + 1, depth, d)

isSameAstDepth(ast, depth, visitorKeys) ==
    depth = isSameAstDepthFrom(traverse(ast, visitorKeys, 0), 1, depth, 0)

(* espurify: a deep copy without the location metadata *)
RECURSIVE espurify(_)
espurify(node) ==
    CASE node.type = "Identifier" -> [type |-> node.type, name |-> node.name]
      [] node.type = "Literal" -> [type |-> node.type, value |-> node.value]
      [] node.type = "MemberExpression" ->
            [type |-> node.type, computed |-> node.computed,
             object |-> espurify(node.object),
             property |-> espurify(node.property)]
      [] node.type = "CallExpression" ->
            [type |-> node.type, callee |-> espurify(node.callee),
             arguments |-> [i \in 1..Len(node.arguments) |->
                               espurify(node.arguments[i])]]
      [] node.type = "ArrayExpression" ->
            [type |-> node.type,
             elements |-> [i \in 1..Len(node.elements) |->
                              espurify(node.elements[i])]]
      [] OTHER -> node

deepEqual(a, b) == a = b

(* ------------------- signature extraction and validation --------------- *)
validateArg(arg) ==
    CASE arg.type = "Identifier" -> Returned(arg.name)
      [] arg.type = "ArrayExpression" ->
            IF Len(arg.elements) # 1 THEN Thrown(invalidFormMessage)
            ELSE LET inner == arg.elements[1]
                 IN IF inner = Null THEN Thrown(TypeError)   \* null.type
                    ELSE IF inner.type # "Identifier"
                    THEN Thrown(invalidFormMessage)
                    ELSE Returned(inner.name)
      [] OTHER -> Thrown(invalidFormMessage)

(* hasOwn.call(names, name), names being the set of own keys of the object *)
hasOwn(names, name) == name \in names

(* names[name] = name on a plain object: assigning a string to __proto__   *)
(* goes to the prototype setter, which ignores it and adds no own key      *)
namesPut(names, name) ==
    IF name = "__proto__" THEN names ELSE names \cup {name}

RECURSIVE validateArgsFrom(_, _, _)
validateArgsFrom(arguments, i, names) ==
    IF i > Len(arguments) THEN Returned(Undefined)
    ELSE LET name == validateArg(arguments[i])
         IN IF IsThrown(name) THEN name
            ELSE IF hasOwn(names, name.returned)
            THEN ThrownWith(duplicatedArgMessage, name.returned)
            ELSE validateArgsFrom(arguments, i + 1,
                                  namesPut(names, name.returned))

validateApiExpression(callExpression) ==
    IF callExpression.type # "CallExpression"
    THEN Thrown(notCallExprMessage)
    ELSE validateArgsFrom(callExpression.arguments, 1, {})

extractExpressionFrom(tree) ==
    LET statement == IF Len(tree.body) >= 1 THEN tree.body[1] ELSE Undefined
    IN IF statement = Undefined THEN Thrown(TypeError)   \* undefined.type
       ELSE IF statement.type # "ExpressionStatement"
       THEN Thrown(notCallExprMessage)
       ELSE LET expression == statement.expression
                v == validateApiExpression(expression)
            IN IF IsThrown(v) THEN v ELSE Returned(expression)

(* ------------------------------- Matcher ------------------------------- *)
identifiers(node) == node.type = "Identifier"

RECURSIVE filterCount(_, _)
filterCount(nodes, i) ==
    IF i > Len(nodes) THEN 0
    ELSE (IF identifiers(nodes[i]) THEN 1 ELSE 0) + filterCount(nodes, i + 1)

Matcher(signatureAst, options) ==
    LET visitorKeys == IF options.visitorKeys # Undefined
                       THEN options.visitorKeys ELSE VisitorKeys
    IN [visitorKeys |-> visitorKeys,
        signatureAst |-> signatureAst,
        signatureCalleeDepth |-> astDepth(signatureAst.callee, visitorKeys),
        numMaxArgs |-> Len(signatureAst.arguments),
        numMinArgs |-> filterCount(signatureAst.arguments, 1)]

(* variant: a NewExpression passes for a call *)
isCallExpression_orNew(node) ==
    node # Null /\ node.type \in {"CallExpression", "NewExpression"}

isCallExpression(node) == node # Null /\ node.type = "CallExpression"

(* variant: the depth pre-filter alone decides *)
isCalleeMatched_depthOnly(callSignature, signatureCalleeDepth, node, visitorKeys) ==
    IF ~isCallExpression(node) THEN FALSE
    ELSE isSameAstDepth(node.callee, signatureCalleeDepth, visitorKeys)

isCalleeMatched(callSignature, signatureCalleeDepth, node, visitorKeys) ==
    IF ~isCallExpression(node) THEN FALSE
    ELSE IF ~isSameAstDepth(node.callee, signatureCalleeDepth, visitorKeys)
    THEN FALSE
    ELSE deepEqual(espurify(callSignature.callee), espurify(node.callee))

(* variant: the upper bound is exclusive *)
test_exclusiveMax(self, currentNode) ==
    LET calleeMatched == isCalleeMatched(self.signatureAst,
                             self.signatureCalleeDepth, currentNode,
                             self.visitorKeys)
    IN IF calleeMatched
       THEN LET numArgs == Len(currentNode.arguments)
            IN self.numMinArgs <= numArgs /\ numArgs < self.numMaxArgs
       ELSE FALSE

(* Matcher.prototype.test on a node value *)
test(self, currentNode) ==
    LET calleeMatched == isCalleeMatched(self.signatureAst,
                             self.signatureCalleeDepth, currentNode,
                             self.visitorKeys)
    IN IF calleeMatched
       THEN LET numArgs == Len(currentNode.arguments)
            IN self.numMinArgs <= numArgs /\ numArgs <= self.numMaxArgs
       ELSE FALSE

toArgumentSignature(argSignatureNode) ==
    CASE argSignatureNode.type = "Identifier" ->
            [name |-> argSignatureNode.name, kind |-> "mandatory"]
      [] argSignatureNode.type = "ArrayExpression" ->
            [name |-> argSignatureNode.elements[1].name, kind |-> "optional"]
      [] OTHER -> Null

argumentSignatures(self) ==
    [i \in 1..Len(self.signatureAst.arguments) |->
        toArgumentSignature(self.signatureAst.arguments[i])]

calleeAst(self) == espurify(self.signatureAst.callee)

(* ----------------------- references to candidate nodes ----------------- *)
NullRef == [ref |-> "null"]
ObjRef(id) == [ref |-> "obj", id |-> id]
(* a CallExpression or NewExpression object whose callee and arguments are *)
(* the heap objects named by their indices                                *)
NodeRef(type, callee, arguments) ==
    [ref |-> "node", type |-> type, callee |-> callee,
     arguments |-> arguments]

deref(r, h) ==
    CASE r.ref = "null" -> Null
      [] r.ref = "obj" -> h[r.id]
      [] r.ref = "node" ->
            [type |-> r.type, callee |-> h[r.callee],
             arguments |-> [i \in 1..Len(r.arguments) |-> h[r.arguments[i]]],
             loc |-> 9]

typeOf(r, h) == IF r.ref = "node" THEN r.type ELSE deref(r, h).type

(* variant: the parent is tested for the wrong node type *)
isCalleeOfParent_wrongType(currentNode, parentNode, h) ==
    /\ parentNode # NullRef
    /\ currentNode # NullRef
    /\ typeOf(parentNode, h) = "NewExpression"
    /\ parentNode.callee = currentNode.id

isCalleeOfParent(currentNode, parentNode, h) ==
    /\ parentNode # NullRef
    /\ currentNode # NullRef
    /\ typeOf(parentNode, h) = "CallExpression"
    /\ parentNode.callee = currentNode.id

(* indexOf(array, item): zero-based index of the first element === item *)
indexOf(array, item) ==
    LET hits == {i \in 1..Len(array) : item # NullRef /\ array[i] = item.id}
    IN IF hits = {} THEN -1
       ELSE (CHOOSE i \in hits : \A j \in hits : i <= j) - 1

(* array[index] in JavaScript: undefined outside the array *)
at(array, index) ==
    IF index >= 0 /\ index < Len(array) THEN array[index + 1] ELSE Undefined

(* variant: numOptional is never decremented *)
RECURSIVE reduce_noDecrement(_, _, _, _)
reduce_noDecrement(argSigs, i, accum, numOptional) ==
    IF i > Len(argSigs) THEN accum
    ELSE LET argSig == argSigs[i]
         IN IF argSig.kind = "mandatory" \/ 0 < numOptional
            THEN reduce_noDecrement(argSigs, i + 1, Append(accum, argSig),
                                    numOptional)
            ELSE reduce_noDecrement(argSigs, i + 1, accum, numOptional)

(* the reduce callback of matchArgument; state is <<accum, numOptional>> *)
RECURSIVE reduce(_, _, _, _)
reduce(argSigs, i, accum, numOptional) ==
    IF i > Len(argSigs) THEN accum
    ELSE LET argSig == argSigs[i]
         IN IF argSig.kind = "mandatory"
            THEN reduce(argSigs, i + 1, Append(accum, argSig), numOptional)
            ELSE IF argSig.kind = "optional" /\ 0 < numOptional
            THEN reduce(argSigs, i + 1, Append(accum, argSig),
                        numOptional - 1)
            ELSE reduce(argSigs, i + 1, accum, numOptional)

matchedSignatures(self, parentNode) ==
    reduce(argumentSignatures(self), 1, <<>>,
           Len(parentNode.arguments) - self.numMinArgs)

matchArgument(self, currentNode, parentNode, h) ==
    IF isCalleeOfParent(currentNode, parentNode, h) THEN Null
    ELSE IF test(self, deref(parentNode, h))
    THEN LET indexOfCurrentArg == indexOf(parentNode.arguments, currentNode)
         IN at(matchedSignatures(self, parentNode), indexOfCurrentArg)
    ELSE Null

(* ------------- the earlier implementation, src/unnamed/part_000 -------- *)
isCalleeMatched_part000(callExp1, callExp2) ==
    IF ~isCallExpression(callExp1) \/ ~isCallExpression(callExp2) THEN FALSE
    ELSE IF astDepth(callExp1.callee, VisitorKeys)
            # astDepth(callExp2.callee, VisitorKeys) THEN FALSE
    ELSE deepEqual(espurify(callExp1.callee), espurify(callExp2.callee))

test_part000(self, currentNode) ==
    IF isCalleeMatched_part000(self.signatureAst, currentNode)
    THEN LET numArgs == Len(currentNode.arguments)
         IN self.numMinArgs <= numArgs /\ numArgs <= self.numMaxArgs
    ELSE FALSE

argMatchResult(argSignatureNode) ==
    IF argSignatureNode = Undefined THEN Thrown(TypeError)  \* undefined.type
    ELSE Returned(toArgumentSignature(argSignatureNode))

matchArgument_part000(self, currentNode, parentNode, h) ==
    IF isCalleeOfParent(currentNode, parentNode, h) THEN Returned(Null)
    ELSE IF test_part000(self, deref(parentNode, h))
    THEN LET indexOfCurrentArg == indexOf(parentNode.arguments, currentNode)
         IN argMatchResult(at(self.signatureAst.arguments, indexOfCurrentArg))
    ELSE Returned(Null)

(* ------------------------------- inputs -------------------------------- *)
a_b(loc) == MemberExpression(Identifier("a", loc), Identifier("b", loc), loc)
a_c(loc) == MemberExpression(Identifier("a", loc), Identifier("c", loc), loc)
a_b_c(loc) == MemberExpression(a_b(loc), Identifier("c", loc), loc)

(* signatures: what esprima.parse returns for the signature string *)
Names == {"a", "b", "__proto__"}
SigCallees == {a_b(0), a_b_c(0)}
ValidArgForms ==
    {Identifier(n, 0) : n \in Names}
    \cup {ArrayExpression(<<Identifier(n, 0)>>, 0) : n \in {"a", "b"}}
InvalidArgForms ==
    {ArrayExpression(<<>>, 0),
     ArrayExpression(<<Identifier("a", 0), Identifier("b", 0)>>, 0),
     ArrayExpression(<<Literal(1, 0)>>, 0),
     ArrayExpression(<<Null>>, 0),
     Literal(1, 0)}
ArgLists(forms) == UNION {[1..n -> forms] : n \in 0..MaxSigArgs}
CallStatement(callee, arguments) ==
    ExpressionStatement(CallExpression(callee, arguments, 0), 0)
Programs ==
    {Program(<<CallStatement(c, args)>>) :
        c \in SigCallees, args \in ArgLists(ValidArgForms)}
    \cup {Program(<<CallStatement(a_b(0), args)>>) :
        args \in ArgLists(ValidArgForms \cup InvalidArgForms)}
    \cup {Program(<<>>),
          Program(<<EmptyStatement(0)>>),
          Program(<<ExpressionStatement(Identifier("a", 0), 0)>>),
          Program(<<ExpressionStatement(a_b(0), 0)>>),
          Program(<<CallStatement(a_b(0), <<Identifier("a", 0)>>),
                    CallStatement(a_b(0), <<Identifier("b", 0)>>)>>),
          Program(<<CallStatement(a_b(0), <<Identifier("a", 0)>>),
                    EmptyStatement(0)>>),
          Program(<<EmptyStatement(0),
                    CallStatement(a_b(0), <<Identifier("a", 0)>>)>>)}
Options == {[visitorKeys |-> Undefined], [visitorKeys |-> CustomVisitorKeys]}

(* candidate node objects: three callees, two structurally equal literals *)
Heap0 == <<a_b(1), a_b_c(2), a_c(3), Literal(1, 4), Literal(1, 5)>>
CalleeIds == {1, 2, 3}
ArgIds == {1, 4}
CandArgLists == UNION {[1..n -> ArgIds] : n \in 0..MaxCandArgs}
CandidateNodes ==
    {NodeRef("CallExpression", c, args) :
        c \in CalleeIds, args \in CandArgLists}
    \cup {NodeRef("NewExpression", 1, args) :
        args \in {l \in CandArgLists : Len(l) <= 1}}
    \cup {NullRef, ObjRef(1), ObjRef(4)}
CurrentNodes == {NullRef} \cup {ObjRef(i) : i \in 1..Len(Heap0)}

(* ---------------------------- state machine ---------------------------- *)
VARIABLES
    pc,          \* "start", "ready" (a Matcher exists), "failed" (threw)
    tree,        \* the parsed signature handed to createMatcher
    options,     \* the options handed to createMatcher
    matcher,     \* the Matcher object, Null before construction
    error,       \* what createMatcher threw, Null if nothing
    heap,        \* the candidate node objects
    visited,     \* whether the tree walker has supplied a node pair
    currentNode, \* the node supplied by the walker
    parentNode,  \* its parent (also the node handed to test)
    op,          \* the last query made
    nQueries,    \* how many queries were made so far
    result       \* what the last query returned or threw

vars == <<pc, tree, options, matcher, error, heap, visited, currentNode,
          parentNode, op, nQueries, result>>

Init ==
    /\ pc = "start"
    /\ tree \in Programs
    /\ options \in Options
    /\ matcher = Null
    /\ error = Null
    /\ heap = Heap0
    /\ visited = FALSE
    /\ currentNode = NullRef
    /\ parentNode = NullRef
    /\ op = "none"
    /\ nQueries = 0
    /\ result = Undefined

createMatcher ==
    /\ pc = "start"
    /\ LET ast == extractExpressionFrom(tree)
       IN IF IsThrown(ast)
          THEN /\ pc' = "failed"
               /\ error' = ast
               /\ matcher' = matcher
          ELSE /\ pc' = "ready"
               /\ error' = error
               /\ matcher' = Matcher(ast.returned, options)
    /\ UNCHANGED <<tree, options, heap, visited, currentNode, parentNode,
                   op, nQueries, result>>

(* the external tree walker supplies a node and its parent *)
Visit ==
    /\ pc = "ready"
    /\ ~visited
    /\ visited' = TRUE
    /\ currentNode' \in CurrentNodes
    /\ parentNode' \in CandidateNodes
    /\ UNCHANGED <<pc, tree, options, matcher, error, heap, op, nQueries,
                   result>>

(* variant: the candidate's callee is purified in place, not copied *)
Test_purifyInPlace ==
    /\ pc = "ready"
    /\ visited
    /\ nQueries < MaxQueries
    /\ nQueries' = nQueries + 1
    /\ op' = "test"
    /\ result' = Returned([bool |-> test(matcher, deref(parentNode, heap))])
    /\ heap' = IF parentNode.ref = "node"
               THEN [heap EXCEPT ![parentNode.callee] = espurify(@)]
               ELSE heap
    /\ UNCHANGED <<pc, tree, options, matcher, error, visited,
                   currentNode, parentNode>>

Test ==
    /\ pc = "ready"
    /\ visited
    /\ nQueries < MaxQueries
    /\ nQueries' = nQueries + 1
    /\ op' = "test"
    /\ result' = Returned([bool |-> test(matcher, deref(parentNode, heap))])
    /\ UNCHANGED <<pc, tree, options, matcher, error, heap, visited,
                   currentNode, parentNode>>

MatchArgument ==
    /\ pc = "ready"
    /\ visited
    /\ nQueries < MaxQueries
    /\ nQueries' = nQueries + 1
    /\ op' = "matchArgument"
    /\ result' = Returned(matchArgument(matcher, currentNode, parentNode, heap))
    /\ UNCHANGED <<pc, tree, options, matcher, error, heap, visited,
                   currentNode, parentNode>>

(* the earlier implementation takes no options *)
MatchArgument_part000 ==
    /\ pc = "ready"
    /\ options.visitorKeys = Undefined
    /\ visited
    /\ nQueries < MaxQueries
    /\ nQueries' = nQueries + 1
    /\ op' = "matchArgument_part000"
    /\ result' = matchArgument_part000(matcher, currentNode, parentNode, heap)
    /\ UNCHANGED <<pc, tree, options, matcher, error, heap, visited,
                   currentNode, parentNode>>

Next ==
    \/ createMatcher
    \/ Visit
    \/ Test
    \/ MatchArgument
    \/ MatchArgument_part000

Spec == Init /\ [][Next]_vars

(* ----------------- vocabulary of the properties below ------------------ *)
(* structural equality of two expressions, source positions ignored *)
RECURSIVE SameShape(_, _)
SameShape(x, y) ==
    /\ x.type = y.type
    /\ CASE x.type = "Identifier" -> x.name = y.name
         [] x.type = "Literal" -> x.value = y.value
         [] x.type = "MemberExpression" ->
               /\ x.computed = y.computed
               /\ SameShape(x.object, y.object)
               /\ SameShape(x.property, y.property)
         [] OTHER -> FALSE

Constructed == pc = "ready"
Failed == pc = "failed"
SigCall == tree.body[1].expression          \* meaningful when Constructed
SigArgs == SigCall.arguments
MandatoryIdx == {i \in 1..Len(SigArgs) : SigArgs[i].type = "Identifier"}
OptionalIdx == {i \in 1..Len(SigArgs) : SigArgs[i].type = "ArrayExpression"}
NumMandatory == Cardinality(MandatoryIdx)
NumOptional == Cardinality(OptionalIdx)

ParentIsCall == parentNode.ref = "node" /\ parentNode.type = "CallExpression"
ParentHasCallee == parentNode.ref = "node"
NumArgs == Len(parentNode.arguments)
CalleeSame == SameShape(SigCall.callee, heap[parentNode.callee])
InRange == NumMandatory <= NumArgs /\ NumArgs <= NumMandatory + NumOptional
Matches == ParentIsCall /\ CalleeSame /\ InRange
Queried(o) == Constructed /\ visited /\ op = o
Absent(r) == ~IsThrown(r) /\ r.returned \in {Null, Undefined}
ReturnedBool(b) == Returned([bool |-> b])

(* the descriptor the signature declares at index i *)
Declared(i) ==
    IF i \in MandatoryIdx
    THEN [name |-> SigArgs[i].name, kind |-> "mandatory"]
    ELSE [name |-> SigArgs[i].elements[1].name, kind |-> "optional"]
(* indices kept for a call with NumArgs arguments: every mandatory one and *)
(* the first NumArgs - NumMandatory optional ones                          *)
KeptIdx ==
    MandatoryIdx \cup
    {i \in OptionalIdx :
        Cardinality({j \in OptionalIdx : j < i}) < NumArgs - NumMandatory}
KeptAt(p) ==
    CHOOSE i \in KeptIdx : Cardinality({j \in KeptIdx : j < i}) = p - 1
Positions == {i \in 1..NumArgs : currentNode # NullRef
                                  /\ parentNode.arguments[i] = currentNode.id}
IsCallee == currentNode # NullRef /\ currentNode.id = parentNode.callee

(* ------------------------------- claims -------------------------------- *)

(* C1: when the candidate is a call whose callee matches the signature's,  *)
(* test is true exactly when the argument count n lies in [k, k+m].        *)
C1_ArgCountRange ==
    (Queried("test") /\ ParentIsCall /\ CalleeSame)
        => result = ReturnedBool(InRange)
C1_Witness ==
    /\ Queried("test") /\ ParentIsCall /\ CalleeSame
    /\ NumOptional > 0 /\ NumMandatory > 0
    /\ NumArgs = NumMandatory + NumOptional
    /\ result = ReturnedBool(TRUE)

C3_Original ==
    (Queried("matchArgument") /\ Matches)
        => /\ Len(matchedSignatures(matcher, parentNode)) = NumArgs
           /\ \A i \in Positions : result = Returned(Declared(KeptAt(i)))

(* C3 amended: the same, for the positions whose argument object is not    *)
(* the callee object and does not occur at an earlier position (the lookup *)
(* is by identity and finds the first occurrence).                         *)
C3_FirstPosition ==
    (Queried("matchArgument") /\ Matches)
        => /\ Len(matchedSignatures(matcher, parentNode)) = NumArgs
           /\ \A i \in Positions :
                 (~IsCallee /\ \A j \in Positions : i <= j)
                    => result = Returned(Declared(KeptAt(i)))
C3_Witness ==
    /\ Queried("matchArgument") /\ Matches /\ ~IsCallee
    /\ NumArgs = 2 /\ 2 \in Positions /\ 1 \notin Positions
    /\ MandatoryIdx = {1} /\ OptionalIdx = {2}
    /\ result = Returned([name |-> SigArgs[2].elements[1].name,
                          kind |-> "optional"])

(* C4: test is false for every node that is not a call expression, the     *)
(* absent node included, whatever its other fields.                        *)
C4_NonCallFalse ==
    (Queried("test") /\ ~ParentIsCall) => result = ReturnedBool(FALSE)
C4_Witness ==
    /\ Queried("test") /\ ParentHasCallee
    /\ parentNode.type = "NewExpression"
    /\ CalleeSame /\ InRange
    /\ result = ReturnedBool(FALSE)

(* C5: matchArgument on the callee node of a call that test accepts        *)
(* returns absent, also when that node object is among the arguments.      *)
C5_CalleeAbsent ==
    (Queried("matchArgument") /\ ParentIsCall /\ IsCallee
        /\ test(matcher, deref(parentNode, heap)))
        => Absent(result)
C5_Witness ==
    /\ Queried("matchArgument") /\ Matches /\ IsCallee
    /\ Positions # {}
    /\ result = Returned(Null)

SigIsCall ==
    /\ Len(tree.body) >= 1
    /\ tree.body[1].type = "ExpressionStatement"
    /\ tree.body[1].expression.type = "CallExpression"
ValidForm(arg) ==
    \/ arg.type = "Identifier"
    \/ /\ arg.type = "ArrayExpression"
       /\ Len(arg.elements) = 1
       /\ arg.elements[1] # Null
       /\ arg.elements[1].type = "Identifier"
NameOf(arg) ==
    IF arg.type = "Identifier" THEN arg.name ELSE arg.elements[1].name
DuplicatedNames ==
    {NameOf(SigArgs[i]) : i \in
        {i \in 1..Len(SigArgs) :
            /\ ValidForm(SigArgs[i])
            /\ \E j \in 1..Len(SigArgs) :
                   /\ j # i /\ ValidForm(SigArgs[j])
                   /\ NameOf(SigArgs[j]) = NameOf(SigArgs[i])}}

(* C6: construction fails with DuplicateArgumentName(name) whenever two    *)
(* arguments resolve to the same parameter name, so that every constructed *)
(* Matcher has pairwise distinct parameter names.                          *)
C6_DuplicateRejected ==
    /\ (pc # "start" /\ SigIsCall /\ DuplicatedNames # {})
          => /\ Failed
             /\ error.thrown = duplicatedArgMessage
             /\ error.arg \in DuplicatedNames
    /\ Constructed => DuplicatedNames = {}

(* C7: construction fails with InvalidArgumentForm, and no other error,    *)
(* for every signature with an argument that is neither an identifier nor  *)
(* an array of exactly one identifier.                                     *)
C7_InvalidFormRejected ==
    (pc # "start" /\ SigIsCall
        /\ \E i \in 1..Len(SigArgs) : ~ValidForm(SigArgs[i]))
        => Failed /\ error = Thrown(invalidFormMessage)

(* C8: construction succeeds only for exactly one top-level statement that *)
(* is an expression statement wrapping a call; an absent statement, a      *)
(* statement of another kind or a non-call expression fail with            *)
(* NotCallExpression.                                                      *)
C8_NotCallExpression ==
    /\ Constructed => (Len(tree.body) = 1 /\ SigIsCall)
    /\ (pc # "start" /\ ~SigIsCall)
          => Failed /\ error = Thrown(notCallExprMessage)

(* C9: matchArgument never raises an error, and returns absent when test   *)
(* rejects the parent or the node is not one of the parent's arguments;    *)
(* stated of both implementations in the repository.                       *)
C9_MatchArgumentNeverThrows ==
    (Constructed /\ visited
        /\ op \in {"matchArgument", "matchArgument_part000"})
        => /\ ~IsThrown(result)
           /\ (~test(matcher, deref(parentNode, heap)) \/ Positions = {})
                 => Absent(result)

(* C10: a Matcher is never mutated by queries: its signature AST, callee   *)
(* depth and argument counts and the candidate node objects stay as they   *)
(* were, and a repeated query returns what it returned before.             *)
C10_Immutable ==
    [][Constructed =>
        /\ matcher' = matcher
        /\ heap' = heap
        /\ (op # "none" /\ op' = op /\ currentNode' = currentNode
                /\ parentNode' = parentNode) => result' = result]_vars
C10_Witness ==
    /\ Constructed /\ nQueries >= 2 /\ op = "test"
    /\ result = ReturnedBool(TRUE)
    /\ matcher.signatureAst = SigCall
    /\ matcher.numMinArgs = NumMandatory
    /\ matcher.numMaxArgs = Len(SigArgs)
    /\ heap = Heap0

====
